---- MODULE Spec2Model ----
(***************************************************************************)
(* Reliability-engineering calculation engine                              *)
(* (client/src/services/python/reliability_engine.py) and the remaining-   *)
(* useful-life solver of client/src/services/python/test_server.py.        *)
(*                                                                         *)
(* The engine is a library of functions.  The state of the model is the    *)
(* WeibullParameters object most recently constructed, the last call made  *)
(* on the library and what that call returned or raised.  Every action is  *)
(* one whole call.                                                         *)
(*                                                                         *)
(* The failure-analysis toolkit (RCFAAnalysis, PFMEAAnalysis) works on     *)
(* lists of dicts.  A dict is an object: heap maps the identity of each    *)
(* dict the caller holds to its contents, a list is a sequence of          *)
(* identities, and records is the list the caller has built of them.       *)
(* threads holds the position and the locals of callers that run           *)
(* pareto_analysis concurrently, one statement at a time.                  *)
(*                                                                         *)
(* Three specifications: Spec (Weibull models, estimators, stress factors, *)
(* goodness of fit), AnalysisSpec (the toolkit and the OREDA table, one    *)
(* whole call per action) and ThreadsSpec (interleaved pareto_analysis).   *)
(*                                                                         *)
(* Numbers.  Python floats are modelled in fixed point:                    *)
(*   - times, scale and location: whole hours;                             *)
(*   - shape: hundredths (shape 2.0 is 200);                               *)
(*   - dimensionless values (ratios, reliabilities, factors): 1/FP;        *)
(*   - coefficients of variation: 1/CVU;                                   *)
(*   - percentages of the Pareto ranking: 1/PctUnit of a percent;          *)
(*   - the IEEE specials NaN and +inf are the sentinels NaN and PosInf;    *)
(*     every comparison with NaN is false, as in IEEE arithmetic.          *)
(***************************************************************************)
EXTENDS Integers, Sequences, FiniteSets, TLC

VARIABLES model, call, result, heap, records, threads

vars == <<model, call, result, heap, records, threads>>

(***************************************************************************)
(* Bounds of the model.                                                    *)
(***************************************************************************)
MaxSampleLen == 3
MaxShapeHalves == 4
MaxAgeK == 4
MaxModes == 3
MaxWhys == 3

(***************************************************************************)
(* Fixed-point units and IEEE specials.                                    *)
(***************************************************************************)
FP == 10^4
CVU == 10^5
PosInf == 2^30
NaN == PosInf + 1

IsNaN(x) == x = NaN
IsFinite(x) == x # NaN /\ x # PosInf /\ x # -PosInf

\* IEEE comparisons: false as soon as an operand is NaN.
FLt(a, b) == ~IsNaN(a) /\ ~IsNaN(b) /\ a < b
FGt(a, b) == ~IsNaN(a) /\ ~IsNaN(b) /\ a > b
FLe(a, b) == ~IsNaN(a) /\ ~IsNaN(b) /\ a <= b

Abs(x) == IF x < 0 THEN -x ELSE x
Min(a, b) == IF a < b THEN a ELSE b
Max(a, b) == IF a > b THEN a ELSE b

\* floor(a * b / c) for a, b >= 0 and c > 0, without forming a * b.
MulDiv(a, b, c) == (a \div c) * b + ((a % c) * b) \div c

RECURSIVE ISqrtSearch(_, _, _)
ISqrtSearch(n, lo, hi) ==
  IF lo >= hi THEN lo
  ELSE LET mid == (lo + hi + 1) \div 2
       IN  IF mid * mid <= n THEN ISqrtSearch(n, mid, hi)
                             ELSE ISqrtSearch(n, lo, mid - 1)

\* floor(sqrt(n))
ISqrt(n) == ISqrtSearch(n, 0, 46340)

\* One more decimal digit of a square root: r = floor(sqrt(v)), rem = v - r^2.
SqrtDigit(r, rem) ==
  CHOOSE d \in 0..9 :
    /\ 20 * r * d + d * d <= 100 * rem
    /\ d = 9 \/ 20 * r * (d + 1) + (d + 1) * (d + 1) > 100 * rem

RECURSIVE SqrtExtend(_, _, _)
SqrtExtend(r, rem, digits) ==
  IF digits = 0 THEN r
  ELSE LET d == SqrtDigit(r, rem)
       IN  SqrtExtend(10 * r + d, 100 * rem - (20 * r * d + d * d), digits - 1)

\* floor(100 * sqrt(v))
Sqrt100(v) == LET r == ISqrt(v) IN SqrtExtend(r, v - r * r, 2)

(***************************************************************************)
(* numpy's exp, log and power in fixed point.                              *)
(***************************************************************************)
\* round(FP * e^-n) for n = 0..9
ExpTable == <<10000, 3679, 1353, 498, 183, 67, 25, 9, 3, 1>>

\* e^-f for 0 <= f < 1 by its series, in Horner form from term k down.
RECURSIVE ExpHorner(_, _, _)
ExpHorner(f, k, h) ==
  IF k = 0 THEN h
  ELSE ExpHorner(f, k - 1, FP - (f * h + (k * FP) \div 2) \div (k * FP))

\* e^-x for x >= 0 (x may be PosInf); 0 once e^-x is below the resolution.
ExpNeg(x) ==
  IF x >= 10 * FP THEN 0
  ELSE (ExpTable[x \div FP + 1] * ExpHorner(x % FP, 8, FP) + FP \div 2) \div FP

\* np.exp(y)
Exp(y) ==
  IF IsNaN(y) THEN NaN
  ELSE IF y <= 0 THEN ExpNeg(-y)
  ELSE IF y >= 9 * FP THEN PosInf
  ELSE (FP * FP) \div ExpNeg(y)

\* -ln(a) for 0 < a <= 1: the least x with e^-x <= a.
RECURSIVE NegLnSearch(_, _, _)
NegLnSearch(a, lo, hi) ==
  IF lo >= hi THEN lo
  ELSE LET mid == (lo + hi) \div 2
       IN  IF ExpNeg(mid) <= a THEN NegLnSearch(a, lo, mid)
                               ELSE NegLnSearch(a, mid + 1, hi)

\* np.log(a): -inf at 0 and NaN below it (numpy warns and returns).
Ln(a) ==
  IF IsNaN(a) \/ a < 0 THEN NaN
  ELSE IF a = 0 THEN -PosInf
  ELSE IF a <= FP THEN -NegLnSearch(a, 0, 10 * FP)
  ELSE NegLnSearch((FP * FP) \div a, 0, 10 * FP)

\* Products saturate at XMax: e^-x is 0 at the resolution well before.
XMax == 20 * FP

MulSat(a, b) == Min(XMax, MulDiv(Min(a, XMax), Min(b, XMax), FP))

RECURSIVE PowInt(_, _)
PowInt(b, e) == IF e = 0 THEN FP ELSE MulSat(b, PowInt(b, e - 1))

\* the greatest r with r^q <= x
RECURSIVE NthRootSearch(_, _, _, _)
NthRootSearch(x, q, lo, hi) ==
  IF lo >= hi THEN lo
  ELSE LET mid == (lo + hi + 1) \div 2
       IN  IF PowInt(mid, q) <= x THEN NthRootSearch(x, q, mid, hi)
                                  ELSE NthRootSearch(x, q, lo, mid - 1)

NthRoot(x, q) == IF q = 1 \/ x = 0 THEN x ELSE NthRootSearch(x, q, 0, Max(x, FP))

RECURSIVE Gcd(_, _)
Gcd(a, b) == IF b = 0 THEN a ELSE Gcd(b, a % b)

\* |x|^(p/q) for p, q >= 1
PowMag(x, p, q) ==
  IF x = PosInf THEN PosInf ELSE PowInt(NthRoot(Min(x, XMax), q), p)

\* np.power(x, num/den) with den > 0: a negative finite base has a power only
\* for a whole exponent (NaN otherwise), 0 to a negative power is inf.
Power(x, num, den) ==
  LET g == Gcd(Abs(num), den)
      p == Abs(num) \div g
      q == den \div g
      mag == PowMag(Abs(x), p, q)
      signed == IF x < 0 /\ p % 2 = 1 /\ mag # PosInf THEN -mag ELSE mag
  IN  IF IsNaN(x) THEN NaN
      ELSE IF num = 0 THEN FP
      ELSE IF x = -PosInf
           THEN (IF num < 0 THEN 0
                 ELSE IF q = 1 /\ p % 2 = 1 THEN -PosInf ELSE PosInf)
      ELSE IF x < 0 /\ q # 1 THEN NaN
      ELSE IF num > 0 THEN signed
      ELSE IF mag = 0 THEN PosInf
      ELSE IF mag = PosInf THEN 0
      ELSE (FP * FP) \div signed

(***************************************************************************)
(* scipy.special.gamma, as the estimator uses it.  The two expressions of  *)
(* shape the code evaluates are tabulated for shape = 0.10, 0.11, ...,     *)
(* 2.10 (index shape100 - 9):                                              *)
(*   TheoreticalCVTable: sqrt(G(1+2/shape) / G(1+1/shape)^2 - 1), in 1/CVU *)
(*   InvGammaTable:      1 / G(1+1/shape), in millionths.                  *)
(***************************************************************************)
TheoreticalCVTable ==
  << 42983136, 23426575, 14152235, 9252566, 6435901, 4703662, 3578262, 2813237, 2273110, 1879342,
     1584298, 1357936, 1180659, 1039298, 924770, 830662, 752355, 686456, 630431, 582360,
     540769, 504508, 472673, 444545, 419546, 397207, 377145, 359043, 342639, 327715,
     314086, 301595, 290110, 279518, 269721, 260635, 252186, 244312, 236955, 230068,
     223607, 217534, 211815, 206421, 201325, 196502, 191930, 187592, 183469, 179545,
     175807, 172240, 168834, 165578, 162461, 159475, 156612, 153864, 151224, 148685,
     146242, 143890, 141622, 139436, 137325, 135286, 133316, 131410, 129566, 127781,
     126051, 124375, 122748, 121170, 119638, 118150, 116704, 115298, 113930, 112599,
     111303, 110041, 108811, 107613, 106444, 105305, 104193, 103107, 102047, 101012,
     100000, 99011, 98045, 97099, 96175, 95270, 94384, 93517, 92668, 91836,
     91022, 90223, 89440, 88673, 87920, 87181, 86457, 85746, 85048, 84363,
     83690, 83029, 82380, 81743, 81116, 80500, 79895, 79299, 78714, 78138,
     77572, 77015, 76466, 75927, 75396, 74873, 74358, 73851, 73352, 72860,
     72375, 71898, 71427, 70964, 70507, 70056, 69612, 69175, 68743, 68317,
     67897, 67483, 67074, 66670, 66272, 65880, 65492, 65109, 64732, 64359,
     63991, 63627, 63268, 62913, 62563, 62217, 61875, 61537, 61204, 60874,
     60548, 60226, 59908, 59593, 59282, 58974, 58670, 58369, 58072, 57778,
     57487, 57200, 56915, 56634, 56355, 56080, 55807, 55538, 55271, 55007,
     54745, 54487, 54231, 53977, 53726, 53478, 53232, 52988, 52747, 52509,
     52272, 52038, 51806, 51577, 51349, 51124, 50901, 50680, 50461, 50244,
     50029 >>

InvGammaTable ==
  << 0, 2, 12, 48, 149, 386, 866, 1729, 3143, 5286,
     8333, 12444, 17752, 24356, 32319, 41667, 52392, 64459, 77803, 92344,
     107985, 124620, 142137, 160421, 179359, 198841, 218760, 239015, 259514, 280169,
     300901, 321639, 342317, 362879, 383273, 403455, 423385, 443031, 462364, 481360,
     500000, 518267, 536149, 553635, 570719, 587396, 603663, 619520, 634966, 650005,
     664639, 678873, 692712, 706161, 719227, 731917, 744239, 756200, 767809, 779072,
     790000, 800599, 810879, 820847, 830513, 839885, 848970, 857777, 866315, 874590,
     882610, 890384, 897918, 905220, 912297, 919156, 925803, 932245, 938488, 944540,
     950404, 956089, 961598, 966938, 972113, 977130, 981993, 986707, 991276, 995706,
     1000000, 1004163, 1008199, 1012112, 1015905, 1019583, 1023149, 1026607, 1029960, 1033211,
     1036363, 1039420, 1042384, 1045259, 1048046, 1050750, 1053371, 1055913, 1058379, 1060769,
     1063088, 1065337, 1067517, 1069632, 1071683, 1073671, 1075600, 1077470, 1079283, 1081042,
     1082747, 1084400, 1086003, 1087558, 1089065, 1090526, 1091942, 1093315, 1094645, 1095935,
     1097185, 1098396, 1099570, 1100708, 1101810, 1102877, 1103912, 1104913, 1105883, 1106823,
     1107732, 1108613, 1109465, 1110290, 1111088, 1111860, 1112607, 1113330, 1114028, 1114704,
     1115357, 1115987, 1116597, 1117186, 1117754, 1118303, 1118832, 1119343, 1119836, 1120311,
     1120769, 1121210, 1121635, 1122044, 1122438, 1122816, 1123180, 1123530, 1123865, 1124188,
     1124497, 1124793, 1125077, 1125348, 1125608, 1125856, 1126093, 1126319, 1126534, 1126739,
     1126934, 1127119, 1127294, 1127460, 1127617, 1127765, 1127904, 1128035, 1128158, 1128272,
     1128379, 1128478, 1128570, 1128655, 1128732, 1128803, 1128867, 1128924, 1128975, 1129020,
     1129059 >>

TheoreticalCV(shape) == TheoreticalCVTable[shape - 9]

InvGamma(shape) == InvGammaTable[shape - 9]

(***************************************************************************)
(* What a call leaves: the value returned or the exception raised, and for *)
(* the two searches what the loop did.                                     *)
(***************************************************************************)
None == [none |-> TRUE]

Value(v) == [err |-> "none", value |-> v, info |-> None]

Raise(e) == [err |-> e, value |-> None, info |-> None]

Returned(r) == [err |-> "none", value |-> r.value, info |-> r.info]

\* The error taxonomy of the design in Python: estimate_parameters raises
\* ValueError for an argument out of its domain.
InvalidArgument == "ValueError"

(***************************************************************************)
(* WeibullParameters: a dataclass, its generated constructor stores the    *)
(* fields as given.                                                        *)
(***************************************************************************)
DefaultConfidence == 95

WeibullParameters(shape, scale, location) ==
  [shape |-> shape, scale |-> scale, location |-> location,
   confidence_level |-> DefaultConfidence]

(***************************************************************************)
(* Sample statistics (numpy mean and var of the failure times).            *)
(***************************************************************************)
RECURSIVE SeqSum(_)
SeqSum(s) == IF s = <<>> THEN 0 ELSE Head(s) + SeqSum(Tail(s))

\* sum of (n*x - S)^2 = n^3 * np.var(data)
SumSqDev(s) ==
  LET n == Len(s)
      S == SeqSum(s)
  IN  SeqSum([i \in 1..n |-> (n * s[i] - S) * (n * s[i] - S)])

\* np.mean(data) in thousandths of an hour; the mean of no data is NaN.
Mean(s) == IF s = <<>> THEN NaN ELSE (SeqSum(s) * 1000) \div Len(s)

\* cv = np.sqrt(np.var(data)) / np.mean(data), in 1/CVU:
\* sqrt(SumSqDev / n^3) / (S / n) = sqrt(SumSqDev / n) / S.
CoefficientOfVariation(s) ==
  IF s = <<>> THEN NaN
  ELSE MulDiv(Sqrt100(SumSqDev(s) \div Len(s)), CVU \div 100, SeqSum(s))

(***************************************************************************)
(* WeibullAnalysis._method_of_moments                                      *)
(***************************************************************************)
InitialShape == 100
ShapeStep == 1
MinShape == 10
MomentsMaxIter == 100
MomentsTolerance == CVU \div 1000

\* shape is a float64 and 0.01 is not one: the float is shape / 100 plus an
\* excess, counted in 1/ShapeUlp of the spacing 2^-52 of the floats of
\* [1, 2).  In this unit the float 0.01 is StepExcess above 0.01 and the
\* float 0.1 is MinShapeExcess above 0.1.
ShapeUlp == 2^7 * 25
StepExcess == 3
MinShapeExcess == 80

\* shape += 0.01 (step = 1) and shape -= 0.01 (step = -1): the excess of the
\* float the addition rounds to, round-to-nearest-even at the spacing of the
\* binade of the exact sum.  The value (shape + step) / 100 is
\* (shape + step) * 32 * 2^52 units, and 32 * 2^52 = 3072 modulo 4 * ShapeUlp.
FloatStep(shape, excess, step) ==
  LET adjusted == shape + step
      exact == excess + step * StepExcess
      AtLeast(bound) == adjusted > bound \/ (adjusted = bound /\ exact >= 0)
      spacing == IF AtLeast(200) THEN 2 * ShapeUlp
                 ELSE IF AtLeast(100) THEN ShapeUlp
                 ELSE IF AtLeast(50) THEN ShapeUlp \div 2
                 ELSE IF AtLeast(25) THEN ShapeUlp \div 4
                 ELSE IF adjusted >= 13 THEN ShapeUlp \div 8
                 ELSE ShapeUlp \div 16
      position == adjusted * 3072 + exact
      below == position % spacing
      down == exact - below
  IN  IF 2 * below < spacing THEN down
      ELSE IF 2 * below > spacing THEN down + spacing
      ELSE IF (position - below) % (2 * spacing) = 0 THEN down
      ELSE down + spacing

\* The state of the search: the shape and its excess, the iterations
\* entered, how the loop was left ("running" while it has not been) and the
\* shape at the start of every iteration entered.
MomentsStart ==
  [shape |-> InitialShape, excess |-> 0, iterations |-> 0, exit |-> "running",
   shapes |-> <<>>]

\* Mutant: the two adjustments exchanged, shape -= 0.01 when the theoretical
\* CV is above the sample CV.
MomentsStep_WrongDirection(cv, st) ==
  IF st.exit # "running" THEN st
  ELSE LET theoretical_cv == TheoreticalCV(st.shape)
           entered == [st EXCEPT !.iterations = @ + 1,
                                 !.shapes = Append(@, st.shape)]
       IN  IF ~IsNaN(cv) /\ Abs(theoretical_cv - cv) < MomentsTolerance
           THEN [entered EXCEPT !.exit = "converged"]
           ELSE LET step == IF FGt(theoretical_cv, cv) THEN -ShapeStep ELSE ShapeStep
                    adjusted == st.shape + step
                    excess == FloatStep(st.shape, st.excess, step)
                IN  IF adjusted < MinShape
                       \/ (adjusted = MinShape /\ excess <= MinShapeExcess)
                    THEN [entered EXCEPT !.shape = MinShape,
                                         !.excess = MinShapeExcess,
                                         !.exit = "floor"]
                    ELSE [entered EXCEPT !.shape = adjusted, !.excess = excess]

\* One iteration of the for loop; a loop that was left stays as it is.
MomentsStep(cv, st) ==
  IF st.exit # "running" THEN st
  ELSE LET theoretical_cv == TheoreticalCV(st.shape)
           entered == [st EXCEPT !.iterations = @ + 1,
                                 !.shapes = Append(@, st.shape)]
       IN  IF ~IsNaN(cv) /\ Abs(theoretical_cv - cv) < MomentsTolerance
           THEN [entered EXCEPT !.exit = "converged"]
           ELSE LET step == IF FGt(theoretical_cv, cv) THEN ShapeStep ELSE -ShapeStep
                    adjusted == st.shape + step
                    excess == FloatStep(st.shape, st.excess, step)
                IN  IF adjusted < MinShape
                       \/ (adjusted = MinShape /\ excess <= MinShapeExcess)
                    THEN [entered EXCEPT !.shape = MinShape,
                                         !.excess = MinShapeExcess,
                                         !.exit = "floor"]
                    ELSE [entered EXCEPT !.shape = adjusted, !.excess = excess]

\* n iterations from st on: the first half, then, unless the loop was left,
\* the second.
RECURSIVE MomentsLoop(_, _, _)
MomentsLoop(cv, st, n) ==
  IF n = 0 THEN st
  ELSE IF n = 1 THEN MomentsStep(cv, st)
  ELSE LET half == MomentsLoop(cv, st, n \div 2)
       IN  IF half.exit # "running" THEN half
           ELSE MomentsLoop(cv, half, n - n \div 2)

\* Mutant: the loop written range(101).
MomentsSearch_OneMore(cv) ==
  LET last == MomentsLoop(cv, MomentsStart, MomentsMaxIter + 1)
  IN  IF last.exit = "running" THEN [last EXCEPT !.exit = "exhausted"] ELSE last

\* for _ in range(100): ...
MomentsSearch(cv) ==
  LET last == MomentsLoop(cv, MomentsStart, MomentsMaxIter)
  IN  IF last.exit = "running" THEN [last EXCEPT !.exit = "exhausted"] ELSE last

\* scale = mean / gamma(1 + 1/shape), in hours: floor(S * inv / (n * 10^6)),
\* the product formed in two halves to stay in range.
MomentsScale(s, shape) ==
  IF s = <<>> THEN NaN
  ELSE LET S == SeqSum(s)
           inv == InvGamma(shape)
       IN  (S * (inv \div 1000) + (S * (inv % 1000)) \div 1000) \div (Len(s) * 1000)

\* Mutant: a three-parameter fit that takes the smallest time as location.
MethodOfMoments_FitsLocation(failure_times) ==
  LET search == MomentsSearch(CoefficientOfVariation(failure_times))
      smallest == IF failure_times = <<>> THEN 0
                  ELSE CHOOSE x \in {failure_times[i] : i \in 1..Len(failure_times)} :
                         \A i \in 1..Len(failure_times) : x <= failure_times[i]
  IN  [value |-> WeibullParameters(search.shape,
                                   MomentsScale(failure_times, search.shape),
                                   smallest),
       info |-> [ran |-> <<"moments">>, search |-> search]]

MethodOfMoments(failure_times) ==
  LET search == MomentsSearch(CoefficientOfVariation(failure_times))
  IN  [value |-> WeibullParameters(search.shape,
                                   MomentsScale(failure_times, search.shape), 0),
       info |-> [ran |-> <<"moments">>, search |-> search]]

(***************************************************************************)
(* WeibullAnalysis._mle_estimation.  scipy.optimize.minimize is outside    *)
(* the repository: its OptimizeResult (success, x) is an input of the      *)
(* call, any point of the search box [0.1, 10] x [0.1, inf).               *)
(***************************************************************************)
\* info.ran lists the estimators entered, info.search what the moments
\* search did (NoSearch when it was not run).
NoSearch ==
  [shape |-> InitialShape, excess |-> 0, iterations |-> 0, exit |-> "none",
   shapes |-> <<>>]

\* Mutant: result.success is not looked at.
MleEstimation_IgnoresSuccess(failure_times, opt) ==
  [value |-> WeibullParameters(opt.x[1], opt.x[2], 0),
   info |-> [ran |-> <<"mle">>, search |-> NoSearch]]

MleEstimation(failure_times, opt) ==
  IF opt.success
  THEN [value |-> WeibullParameters(opt.x[1], opt.x[2], 0),
        info |-> [ran |-> <<"mle">>, search |-> NoSearch]]
  ELSE LET fallback == MethodOfMoments(failure_times)
       IN  [fallback EXCEPT !.info.ran = <<"mle">> \o fallback.info.ran]

(***************************************************************************)
(* WeibullAnalysis.estimate_parameters                                     *)
(***************************************************************************)
\* Mutant: any method other than "moments" is taken for the default "mle".
EstimateParameters_DefaultsToMle(failure_times, method, opt) ==
  IF method = "moments" THEN Returned(MethodOfMoments(failure_times))
  ELSE Returned(MleEstimation(failure_times, opt))

EstimateParameters(failure_times, method, opt) ==
  IF method = "mle" THEN Returned(MleEstimation(failure_times, opt))
  ELSE IF method = "moments" THEN Returned(MethodOfMoments(failure_times))
  ELSE [err |-> "ValueError", value |-> None,
        info |-> [ran |-> <<>>, search |-> NoSearch]]

(***************************************************************************)
(* WeibullParameters methods.  Shape is in hundredths, so a power with     *)
(* exponent shape is Power(x, shape, 100).  The arithmetic below the       *)
(* first test of each method is modelled for shape > 0 and scale > 0.      *)
(***************************************************************************)
Valid(self) == self.shape > 0 /\ self.scale > 0

\* adjusted_time / self.scale, in 1/FP
TimeRatio(adjusted_time, scale) == Min(XMax, MulDiv(adjusted_time, FP, scale))

Reliability(self, time) ==
  IF time <= self.location THEN FP
  ELSE LET adjusted_time == time - self.location
       IN  Exp(-Power(TimeRatio(adjusted_time, self.scale), self.shape, 100))

\* beta / eta, per hour, in 1/RateUnit
RateUnit == 10^6

ShapeOverScale(self) == (self.shape * (RateUnit \div 100)) \div self.scale

\* a rate (1/RateUnit) times a dimensionless value (1/FP)
RateTimes(rate, v) ==
  IF v = PosInf THEN (IF rate = 0 THEN NaN ELSE PosInf)
  ELSE MulDiv(rate, v, FP)

\* Mutant: the boundary test written time < self.location.
HazardRate_StrictBoundary(self, time) ==
  IF time < self.location \/ ~Valid(self) THEN 0
  ELSE LET adjusted_time == time - self.location
       IN  RateTimes(ShapeOverScale(self),
                     Power(TimeRatio(adjusted_time, self.scale), self.shape - 100, 100))

HazardRate(self, time) ==
  IF time <= self.location THEN 0
  ELSE LET adjusted_time == time - self.location
       IN  RateTimes(ShapeOverScale(self),
                     Power(TimeRatio(adjusted_time, self.scale), self.shape - 100, 100))

FailureDensity(self, time) ==
  IF time <= self.location THEN 0
  ELSE LET adjusted_time == time - self.location
           reliability == Reliability(self, time)
           rate == RateTimes(ShapeOverScale(self),
                             Power(TimeRatio(adjusted_time, self.scale),
                                   self.shape - 100, 100))
       IN  IF IsFinite(rate) THEN MulDiv(rate, reliability, FP)
           ELSE IF reliability = 0 THEN NaN ELSE rate

\* -x, NaN staying NaN
Neg(x) == IF IsNaN(x) THEN NaN ELSE -x

\* a time span (hours) times a dimensionless value (1/FP), in hours
HoursTimes(hours, v) ==
  IF IsNaN(v) THEN NaN
  ELSE IF v = PosInf \/ v = -PosInf THEN v
  ELSE IF v < 0 THEN -MulDiv(hours, -v, FP)
  ELSE MulDiv(hours, v, FP)

FAdd(a, b) == IF IsFinite(a) /\ IsFinite(b) THEN a + b ELSE IF IsFinite(a) THEN b ELSE a

BLife(self, percentile) ==
  LET probability == percentile * (FP \div 100)
  IN  FAdd(self.location,
           HoursTimes(self.scale, Power(Neg(Ln(FP - probability)), 100, self.shape)))

(***************************************************************************)
(* NSWC10StressFactors.  operating / reference is Python's true division:  *)
(* with a zero divisor it raises ZeroDivisionError on Python numbers and   *)
(* returns inf, -inf or NaN (with a warning) on numpy float64 scalars.     *)
(***************************************************************************)
Ratio(a, b, numpy) ==
  IF b = 0
  THEN (IF ~numpy THEN Raise("ZeroDivisionError")
        ELSE IF a > 0 THEN Value(PosInf)
        ELSE IF a < 0 THEN Value(-PosInf)
        ELSE Value(NaN))
  ELSE IF (a < 0) = (b < 0) THEN Value(MulDiv(Abs(a), FP, Abs(b)))
  ELSE Value(-MulDiv(Abs(a), FP, Abs(b)))

\* 0.1 * (ratio - 1)
TenthOfExcess(ratio) == IF IsFinite(ratio) THEN (ratio - FP) \div 10 ELSE ratio

\* np.exp on the extended values
ExpExt(y) == IF y = -PosInf THEN 0 ELSE IF y = PosInf THEN PosInf ELSE Exp(y)

TemperatureFactor(operating_temp, rated_temp, numpy) ==
  LET ratio == Ratio(operating_temp, rated_temp, numpy)
  IN  IF ratio.err # "none" THEN ratio
      ELSE Value(ExpExt(TenthOfExcess(ratio.value)))

VibrationFactor(operating_vib, design_vib, numpy) ==
  LET ratio == Ratio(operating_vib, design_vib, numpy)
  IN  IF ratio.err # "none" THEN ratio
      ELSE Value(Power(ratio.value, 5, 2))

DutyCycleFactor(actual_hours, design_hours, numpy) ==
  LET ratio == Ratio(actual_hours, design_hours, numpy)
  IN  IF ratio.err # "none" THEN ratio
      ELSE Value(Power(ratio.value, 3, 5))

(***************************************************************************)
(* calculate_remaining_useful_life (test_server.py)                        *)
(***************************************************************************)
TargetReliability == FP \div 10
RulTolerance == FP \div 1000
RulMaxIter == 50
BracketFactor == 10

\* Mutant: the search started from time 0 instead of current_hours.
RulStart_FromZero(current_hours) ==
  [low |-> 0, high |-> current_hours * BracketFactor,
   iterations |-> 0, exit |-> "running", value |-> 0, steps |-> <<>>]

\* The state of the binary search: the bounds, the iterations entered, how
\* the loop was left ("running" while it has not been), the value returned
\* from inside the loop, and <<low, mid, high>> of every iteration entered.
RulStart(current_hours) ==
  [low |-> current_hours, high |-> current_hours * BracketFactor,
   iterations |-> 0, exit |-> "running", value |-> 0, steps |-> <<>>]

\* Mutant: the two branches exchanged, low = mid when the reliability at
\* mid is below the target.
RulStep_SwappedHalves(weibull_params, current_hours, st) ==
  IF st.exit # "running" THEN st
  ELSE LET mid == (st.low + st.high) \div 2
           reliability_at_mid == Reliability(weibull_params, mid)
           entered == [st EXCEPT !.iterations = @ + 1,
                                 !.steps = Append(@, <<st.low, mid, st.high>>)]
       IN  IF Abs(reliability_at_mid - TargetReliability) < RulTolerance
           THEN [entered EXCEPT !.exit = "converged", !.value = mid - current_hours]
           ELSE IF reliability_at_mid > TargetReliability
           THEN [entered EXCEPT !.high = mid]
           ELSE [entered EXCEPT !.low = mid]

\* One iteration of the for loop; a loop that was left stays as it is.
RulStep(weibull_params, current_hours, st) ==
  IF st.exit # "running" THEN st
  ELSE LET mid == (st.low + st.high) \div 2
           reliability_at_mid == Reliability(weibull_params, mid)
           entered == [st EXCEPT !.iterations = @ + 1,
                                 !.steps = Append(@, <<st.low, mid, st.high>>)]
       IN  IF Abs(reliability_at_mid - TargetReliability) < RulTolerance
           THEN [entered EXCEPT !.exit = "converged", !.value = mid - current_hours]
           ELSE IF reliability_at_mid > TargetReliability
           THEN [entered EXCEPT !.low = mid]
           ELSE [entered EXCEPT !.high = mid]

\* n iterations from st on: the first half, then, unless the loop was left,
\* the second.
RECURSIVE RulLoop(_, _, _, _)
RulLoop(weibull_params, current_hours, st, n) ==
  IF n = 0 THEN st
  ELSE IF n = 1 THEN RulStep(weibull_params, current_hours, st)
  ELSE LET half == RulLoop(weibull_params, current_hours, st, n \div 2)
       IN  IF half.exit # "running" THEN half
           ELSE RulLoop(weibull_params, current_hours, half, n - n \div 2)

\* Mutant: after the loop the upper bound is returned, max(0, high - current_hours).
CalculateRemainingUsefulLife_ReturnsHigh(weibull_params, current_hours) ==
  LET last == RulLoop(weibull_params, current_hours, RulStart(current_hours),
                      RulMaxIter)
  IN  IF last.exit = "running"
      THEN [value |-> Max(0, last.high - current_hours),
            info |-> [last EXCEPT !.exit = "exhausted"]]
      ELSE [value |-> last.value, info |-> last]

\* Mutant: after the loop the characteristic life is the fallback,
\* max(0, location + scale - current_hours).
CalculateRemainingUsefulLife_CharacteristicLife(weibull_params, current_hours) ==
  LET last == RulLoop(weibull_params, current_hours, RulStart(current_hours),
                      RulMaxIter)
  IN  IF last.exit = "running"
      THEN [value |-> Max(0, weibull_params.location + weibull_params.scale
                               - current_hours),
            info |-> [last EXCEPT !.exit = "exhausted"]]
      ELSE [value |-> last.value, info |-> last]

CalculateRemainingUsefulLife(weibull_params, current_hours) ==
  LET last == RulLoop(weibull_params, current_hours, RulStart(current_hours),
                      RulMaxIter)
  IN  IF last.exit = "running"
      THEN [value |-> Max(0, last.low - current_hours),
            info |-> [last EXCEPT !.exit = "exhausted"]]
      ELSE [value |-> last.value, info |-> last]

(***************************************************************************)
(* The Kolmogorov-Smirnov statistic of WeibullAnalysis.goodness_of_fit:    *)
(* theoretical_cdf is taken over data in the order given, empirical_cdf    *)
(* is (i + 1) / n for the position i.  np.sort(data) is taken afterwards,  *)
(* for the other two statistics of the dict.                               *)
(***************************************************************************)
TheoreticalCdf(failure_times, params) ==
  [i \in DOMAIN failure_times |-> FP - Reliability(params, failure_times[i])]

EmpiricalCdf(n) == [i \in 1..n |-> (2 * i * FP + n) \div (2 * n)]

RECURSIVE SeqMax(_)
SeqMax(s) ==
  IF Len(s) = 1 THEN s[1] ELSE Max(s[1], SeqMax(Tail(s)))

KsStatistic(failure_times, params) ==
  LET theoretical_cdf == TheoreticalCdf(failure_times, params)
      empirical_cdf == EmpiricalCdf(Len(failure_times))
  IN  SeqMax([i \in DOMAIN failure_times |->
                Abs(theoretical_cdf[i] - empirical_cdf[i])])

\* np.sort(data)
RECURSIVE SortedAscending(_)
SortedAscending(s) ==
  IF s = <<>> THEN <<>>
  ELSE LET rest == SortedAscending(SubSeq(s, 1, Len(s) - 1))
           x == s[Len(s)]
           n == Cardinality({i \in DOMAIN rest : rest[i] <= x})
       IN  SubSeq(rest, 1, n) \o <<x>> \o SubSeq(rest, n + 1, Len(rest))

\* np.sum of floats: an infinite term makes the sum infinite (the terms
\* summed here are never infinite with opposite signs).
RECURSIVE FSum(_)
FSum(s) == IF s = <<>> THEN 0 ELSE FAdd(s[1], FSum(Tail(s)))

\* ad_statistic = -n - sum((2i - 1) * (log(1 - R(x[i-1])) + log(R(x[n-i])))) / n
\* for i = 1..n, in 1/FP.  np.log(0) is -inf; nothing is clamped.
AndersonDarling(sorted_data, params) ==
  LET n == Len(sorted_data)
      term(i) ==
        LET logs == FAdd(Ln(FP - Reliability(params, sorted_data[i])),
                         Ln(Reliability(params, sorted_data[n - i + 1])))
        IN  IF IsFinite(logs) THEN (2 * i - 1) * logs ELSE logs
      total == FSum([i \in 1..n |-> term(i)])
  IN  IF IsFinite(total) THEN -(n * FP) - total \div n ELSE Neg(total)

\* np.corrcoef(sorted_data, theoretical_quantiles)[0, 1] ** 2, in 1/FP.  The
\* quantiles are scale * (-log(1 - (i + 0.5) / n)) ** (1 / shape), in hours.
\* The deviations from the two means are taken at 1/256 of the largest and
\* the correlation in thousandths; corrcoef clips it to [-1, 1], and it is
\* NaN (0 / 0, with a warning) when either standard deviation is 0.
\* SubSeq(s, 1, n) is the list s, each of its elements computed once.
RSquared(sorted_data, params) ==
  LET n == Len(sorted_data)
      theoretical_quantiles ==
        SubSeq([i \in 1..n |->
                  HoursTimes(params.scale,
                             Power(Neg(Ln(FP - ((2 * i - 1) * FP) \div (2 * n))),
                                   100, params.shape))], 1, n)
      Deviations(s) ==
        LET total == SeqSum(s)
            raw == SubSeq([i \in 1..n |-> n * s[i] - total], 1, n)
            k == 1 + SeqMax([i \in 1..n |-> Abs(raw[i])]) \div 256
        IN  SubSeq([i \in 1..n |->
                      IF raw[i] < 0 THEN -((-raw[i]) \div k) ELSE raw[i] \div k],
                   1, n)
      dx == Deviations(sorted_data)
      dy == Deviations(theoretical_quantiles)
      sxy == SeqSum([i \in 1..n |-> dx[i] * dy[i]])
      sxx == SeqSum([i \in 1..n |-> dx[i] * dx[i]])
      syy == SeqSum([i \in 1..n |-> dy[i] * dy[i]])
  IN  IF sxx = 0 \/ syy = 0 THEN NaN
      ELSE LET correlation ==
                 Min(1000, MulDiv(Abs(sxy), 1000, ISqrt(sxx) * ISqrt(syy)))
           IN  (correlation * correlation) \div (10^6 \div FP)

\* max() of an empty sequence raises ValueError.
GoodnessOfFit(failure_times, params) ==
  IF failure_times = <<>> THEN Raise("ValueError")
  ELSE LET sorted_data == SortedAscending(failure_times)
       IN  [err |-> "none",
            value |-> [kolmogorov_smirnov |-> KsStatistic(failure_times, params),
                       anderson_darling |-> AndersonDarling(sorted_data, params),
                       r_squared |-> RSquared(sorted_data, params)],
            info |-> [sorted_data |-> sorted_data]]

(***************************************************************************)
(* OREDAFailureRates.get_rates: the table is built anew by every call and  *)
(* indexed by the category.  Failure rates in thousandths per year,        *)
(* repair_rate in hours, environmental factors in tenths.                  *)
(***************************************************************************)
OredaRates(failure_rate, repair_rate, offshore, onshore, harsh) ==
  [failure_rate |-> failure_rate, repair_rate |-> repair_rate,
   environmental_factors |->
     [offshore |-> offshore, onshore |-> onshore, harsh |-> harsh]]

RatesDb ==
  [PUMP_CENTRIFUGAL |-> OredaRates(520, 8760, 15, 10, 20),
   PUMP_POSITIVE_DISPLACEMENT |-> OredaRates(780, 6570, 18, 10, 23),
   MOTOR_INDUCTION |-> OredaRates(310, 4380, 12, 10, 16),
   COMPRESSOR_CENTRIFUGAL |-> OredaRates(1240, 5840, 21, 10, 28),
   VALVE_BALL |-> OredaRates(89, 2190, 11, 10, 14),
   VALVE_BUTTERFLY |-> OredaRates(67, 1460, 11, 10, 13)]

EquipmentCategory == DOMAIN RatesDb

\* The error taxonomy of the design in Python: indexing a dict with a key it
\* does not hold raises KeyError.
UnknownCategory == "KeyError"

\* Mutant: the lookup written rates_db.get(category, <centrifugal pump>).
GetRates_DefaultRecord(category) ==
  IF category \in EquipmentCategory THEN Value(RatesDb[category])
  ELSE Value(RatesDb.PUMP_CENTRIFUGAL)

GetRates(category) ==
  IF category \in EquipmentCategory THEN Value(RatesDb[category])
  ELSE Raise("KeyError")

(***************************************************************************)
(* RCFAAnalysis.five_whys_analysis.                                        *)
(***************************************************************************)
NotDetermined == "Not determined"

\* Mutant: whys[0] taken for the root cause.
FiveWhysAnalysis_FirstWhy(problem_statement, whys) ==
  Value([problem_statement |-> problem_statement,
         whys |-> whys,
         root_cause |-> IF whys # <<>> THEN whys[1] ELSE NotDetermined,
         methodology |-> "5 Whys per Juran's Quality Handbook"])

FiveWhysAnalysis(problem_statement, whys) ==
  Value([problem_statement |-> problem_statement,
         whys |-> whys,
         root_cause |-> IF whys # <<>> THEN whys[Len(whys)] ELSE NotDetermined,
         methodology |-> "5 Whys per Juran's Quality Handbook"])

(***************************************************************************)
(* Dicts and lists of dicts.                                               *)
(***************************************************************************)
\* d[key] = value
SetItem(d, key, value) == (key :> value) @@ d

\* d.get(key, default)
Get(d, key, default) == IF key \in DOMAIN d THEN d[key] ELSE default

\* The elements of a list.
Range(s) == {s[i] : i \in DOMAIN s}

\* The contents of the dicts of a list, in the order of the list.
Deref(h, ids) == [i \in DOMAIN ids |-> h[ids[i]]]

\* Mutant: sorted(...)[::-1] of the ascending sort, which turns the order
\* of equal keys around.
InsertDescending_BeforeEqual(sorted, id, keys) ==
  LET n == Cardinality({i \in DOMAIN sorted : keys[sorted[i]] > keys[id]})
  IN  SubSeq(sorted, 1, n) \o <<id>> \o SubSeq(sorted, n + 1, Len(sorted))

\* One element placed into a list that is in descending order of keys:
\* behind every element whose key is not smaller.
InsertDescending(sorted, id, keys) ==
  LET n == Cardinality({i \in DOMAIN sorted : keys[sorted[i]] >= keys[id]})
  IN  SubSeq(sorted, 1, n) \o <<id>> \o SubSeq(sorted, n + 1, Len(sorted))

\* sorted(ids, key=lambda x: keys[x], reverse=True): the sort is stable, and
\* with reverse=True equal keys keep the order of the input.
RECURSIVE SortedDescending(_, _)
SortedDescending(ids, keys) ==
  IF ids = <<>> THEN <<>>
  ELSE InsertDescending(SortedDescending(SubSeq(ids, 1, Len(ids) - 1), keys),
                        ids[Len(ids)], keys)

(***************************************************************************)
(* RCFAAnalysis.pareto_analysis.  Percentages in 1/PctUnit of a percent.   *)
(***************************************************************************)
PctUnit == 2^24

VitalFewThreshold == 80

\* a * b / c rounded to the nearest integer, for a, b >= 0 and c > 0
RoundMulDiv(a, b, c) ==
  MulDiv(a, b, c) + (IF 2 * (((a % c) * b) % c) >= c THEN 1 ELSE 0)

\* (frequency / total_frequency) * 100
Percentage(frequency, total_frequency) ==
  RoundMulDiv(100 * PctUnit, frequency, total_frequency)

Frequencies(h) == [id \in DOMAIN h |-> h[id].frequency]

TotalFrequency(h, sorted_modes) ==
  SeqSum([i \in DOMAIN sorted_modes |-> h[sorted_modes[i]].frequency])

\* Mutant: the item's own percentage stored as its cumulative percentage.
ParetoAnnotate_NotAccumulated(h, id, total_frequency, cumulative_percentage) ==
  LET percentage == Percentage(h[id].frequency, total_frequency)
  IN  [heap |-> [h EXCEPT ![id] =
                   SetItem(SetItem(@, "percentage", percentage),
                           "cumulative_percentage", percentage)],
       cumulative_percentage |-> cumulative_percentage + percentage]

\* One iteration of the for loop: the two entries written into the dict.
ParetoAnnotate(h, id, total_frequency, cumulative_percentage) ==
  LET percentage == Percentage(h[id].frequency, total_frequency)
      cumulative == cumulative_percentage + percentage
  IN  [heap |-> [h EXCEPT ![id] =
                   SetItem(SetItem(@, "percentage", percentage),
                           "cumulative_percentage", cumulative)],
       cumulative_percentage |-> cumulative]

RECURSIVE ParetoLoop(_, _, _, _, _)
ParetoLoop(h, sorted_modes, total_frequency, cumulative_percentage, i) ==
  IF i > Len(sorted_modes) THEN h
  ELSE LET st == ParetoAnnotate(h, sorted_modes[i], total_frequency,
                                cumulative_percentage)
       IN  ParetoLoop(st.heap, sorted_modes, total_frequency,
                      st.cumulative_percentage, i + 1)

\* Mutant: vital_few[0] read for the percentage.
ParetoResult_FirstOfVitalFew(h, sorted_modes) ==
  LET vital_few == SelectSeq(sorted_modes,
                     LAMBDA id : h[id].cumulative_percentage <= VitalFewThreshold * PctUnit)
  IN  [failure_modes |-> sorted_modes,
       vital_few |-> vital_few,
       vital_few_count |-> Len(vital_few),
       vital_few_percentage |->
         IF vital_few # <<>>
         THEN h[vital_few[1]].cumulative_percentage ELSE 0,
       methodology |-> "Pareto Analysis per Juran's Quality Handbook"]

\* The vital few and the dict returned, read from the annotated dicts.
ParetoResult(h, sorted_modes) ==
  LET vital_few == SelectSeq(sorted_modes,
                     LAMBDA id : h[id].cumulative_percentage <= VitalFewThreshold * PctUnit)
  IN  [failure_modes |-> sorted_modes,
       vital_few |-> vital_few,
       vital_few_count |-> Len(vital_few),
       vital_few_percentage |->
         IF vital_few # <<>>
         THEN h[vital_few[Len(vital_few)]].cumulative_percentage ELSE 0,
       methodology |-> "Pareto Analysis per Juran's Quality Handbook"]

\* Mutant: 100 / total_frequency computed once, ahead of the loop.
ParetoAnalysis_DividesFirst(h, failure_modes) ==
  LET sorted_modes == SortedDescending(failure_modes, Frequencies(h))
      total_frequency == TotalFrequency(h, sorted_modes)
  IN  IF total_frequency = 0
      THEN [heap |-> h, result |-> Raise("ZeroDivisionError")]
      ELSE LET annotated == ParetoLoop(h, sorted_modes, total_frequency, 0, 1)
           IN  [heap |-> annotated,
                result |-> Value(ParetoResult(annotated, sorted_modes))]

\* The whole call: the heap it leaves and what it returns or raises.  A
\* total of 0 raises in the first iteration, before any dict is written.
ParetoAnalysis(h, failure_modes) ==
  LET sorted_modes == SortedDescending(failure_modes, Frequencies(h))
      total_frequency == TotalFrequency(h, sorted_modes)
  IN  IF sorted_modes # <<>> /\ total_frequency = 0
      THEN [heap |-> h, result |-> Raise("ZeroDivisionError")]
      ELSE LET annotated == ParetoLoop(h, sorted_modes, total_frequency, 0, 1)
           IN  [heap |-> annotated,
                result |-> Value(ParetoResult(annotated, sorted_modes))]

(***************************************************************************)
(* PFMEAAnalysis.                                                          *)
(***************************************************************************)
CalculateRpn(severity, occurrence, detection) == severity * occurrence * detection

HighRiskRpn == 200
MediumRiskRpn == 100

\* The first loop of pfmea_worksheet: mode['rpn'] written into every dict
\* of the caller's list.
RECURSIVE PfmeaLoop(_, _, _)
PfmeaLoop(h, failure_modes, i) ==
  IF i > Len(failure_modes) THEN h
  ELSE LET id == failure_modes[i]
           rpn == CalculateRpn(h[id].severity, h[id].occurrence, h[id].detection)
       IN  PfmeaLoop([h EXCEPT ![id] = SetItem(@, "rpn", rpn)], failure_modes, i + 1)

Rpns(h) == [id \in DOMAIN h |-> Get(h[id], "rpn", 0)]

\* Mutant: the high-risk test written rpn > 200.
HighRiskModes_Above(h, sorted_modes) ==
  SelectSeq(sorted_modes, LAMBDA id : h[id].rpn > HighRiskRpn)

HighRiskModes(h, sorted_modes) ==
  SelectSeq(sorted_modes, LAMBDA id : h[id].rpn >= HighRiskRpn)

MediumRiskModes(h, sorted_modes) ==
  SelectSeq(sorted_modes,
            LAMBDA id : MediumRiskRpn <= h[id].rpn /\ h[id].rpn < HighRiskRpn)

LowRiskModes(h, sorted_modes) ==
  SelectSeq(sorted_modes, LAMBDA id : h[id].rpn < MediumRiskRpn)

\* The whole call: the heap it leaves and the dict it returns.
PfmeaWorksheet(h, equipment_id, failure_modes) ==
  LET scored == PfmeaLoop(h, failure_modes, 1)
      sorted_modes == SortedDescending(failure_modes, Rpns(scored))
  IN  [heap |-> scored,
       result |-> Value([equipment_id |-> equipment_id,
                         failure_modes |-> sorted_modes,
                         high_risk_modes |-> HighRiskModes(scored, sorted_modes),
                         medium_risk_modes |-> MediumRiskModes(scored, sorted_modes),
                         low_risk_modes |-> LowRiskModes(scored, sorted_modes),
                         methodology |-> "PFMEA per AIAG-VDA standards"])]

(***************************************************************************)
(* generate_failure_modes of test_server.py.  avg_vibration in tenths of   *)
(* mm/s, base_prob and vib_factor in hundredths, probability in 1/10^4.    *)
(***************************************************************************)
BaseModes ==
  <<[mode |-> "Bearing Failure", base_prob |-> 15, severity |-> 8, detection |-> 6],
    [mode |-> "Unbalance", base_prob |-> 10, severity |-> 6, detection |-> 4],
    [mode |-> "Misalignment", base_prob |-> 8, severity |-> 7, detection |-> 5],
    [mode |-> "Looseness", base_prob |-> 5, severity |-> 5, detection |-> 3],
    [mode |-> "Cavitation", base_prob |-> 3, severity |-> 6, detection |-> 7]>>

MaxVibFactor == 300
ProbabilityCap == 8000

\* min(3.0, avg_vibration / 2.0)
VibFactor(avg_vibration) == Min(MaxVibFactor, avg_vibration * 5)

\* int(probability * 10)
Occurrence(probability) == probability \div 1000

GeneratedMode(mode, avg_vibration) ==
  LET probability == mode.base_prob * VibFactor(avg_vibration)
  IN  [mode |-> mode.mode,
       probability |-> Min(ProbabilityCap, probability),
       severity |-> mode.severity,
       detectability |-> mode.detection,
       rpn |-> CalculateRpn(mode.severity, Occurrence(probability), mode.detection)]

GenerateFailureModes(avg_vibration) ==
  Value([i \in DOMAIN BaseModes |-> GeneratedMode(BaseModes[i], avg_vibration)])

(***************************************************************************)
(* create_pfmea_worksheet of api_endpoints.py: the ratings default to 5,   *)
(* the RPN is written into the dicts of the request.                       *)
(***************************************************************************)
DefaultRating == 5

RequestRpn(d) ==
  CalculateRpn(Get(d, "severity", DefaultRating), Get(d, "occurrence", DefaultRating),
               Get(d, "detection", DefaultRating))

RECURSIVE RequestLoop(_, _, _)
RequestLoop(h, failure_modes, i) ==
  IF i > Len(failure_modes) THEN h
  ELSE LET id == failure_modes[i]
       IN  RequestLoop([h EXCEPT ![id] = SetItem(@, "rpn", RequestRpn(h[id]))],
                       failure_modes, i + 1)

CreatePfmeaWorksheet(h, equipment_id, failure_modes) ==
  LET scored == RequestLoop(h, failure_modes, 1)
      critical == SelectSeq(failure_modes, LAMBDA id : scored[id].rpn >= HighRiskRpn)
  IN  [heap |-> scored,
       result |-> Value([equipment_id |-> equipment_id,
                         failure_modes |-> failure_modes,
                         total_rpn |-> SeqSum([i \in DOMAIN failure_modes |->
                                                 scored[failure_modes[i]].rpn]),
                         critical_items |->
                           [i \in DOMAIN critical |->
                              Get(scored[critical[i]], "failure_mode", "Unknown")],
                         recommended_actions |->
                           [i \in DOMAIN critical |->
                              Get(scored[critical[i]], "recommended_action",
                                  "Review and improve")]])]

(***************************************************************************)
(* POST /api/pareto (api_endpoints.py): the endpoint ranks the request's   *)
(* dicts itself.  Each cumulative percentage is one quotient,              *)
(* (cumulative_frequency / total_frequency) * 100; the dicts are not       *)
(* written.  Any exception, the division by a total of 0 among them,       *)
(* becomes an HTTPException with status 500.                               *)
(***************************************************************************)
AnalyzePareto(h, failure_modes) ==
  LET frequency == [id \in DOMAIN h |-> Get(h[id], "frequency", 0)]
      sorted_modes == SortedDescending(failure_modes, frequency)
      total_frequency ==
        SeqSum([i \in DOMAIN sorted_modes |-> frequency[sorted_modes[i]]])
      cumulative_frequency(i) ==
        SeqSum([j \in 1..i |-> frequency[sorted_modes[j]]])
      cumulative_percentages ==
        [i \in DOMAIN sorted_modes |->
           Percentage(cumulative_frequency(i), total_frequency)]
      within == {i \in DOMAIN sorted_modes :
                   cumulative_percentages[i] <= VitalFewThreshold * PctUnit}
      top_20_percent ==
        LET kept == SelectSeq([i \in DOMAIN sorted_modes |-> i],
                              LAMBDA i : i \in within)
        IN  [k \in DOMAIN kept |-> Get(h[sorted_modes[kept[k]]], "mode", "Unknown")]
  IN  IF sorted_modes # <<>> /\ total_frequency = 0
      THEN Raise("HTTPException")
      ELSE Value([failure_modes |-> sorted_modes,
                  cumulative_percentages |-> cumulative_percentages,
                  pareto_principle_applies |->
                    5 * Len(top_20_percent) <= Len(sorted_modes),
                  top_20_percent |-> top_20_percent])

(***************************************************************************)
(* Inputs of the calls.                                                    *)
(***************************************************************************)
ShapeValues == {-100, 0} \cup {50 * k : k \in 1..MaxShapeHalves}
ScaleValues == {-1000, 0, 1000, 8000}
LocationValues == {0, 500}
Times == {-5, 0, 250, 500, 1000, 3000}
Percentiles == {-10, 0, 10, 50, 90, 100, 110}
Ages == {0, 100} \cup {1000 * k : k \in 1..MaxAgeK}
FailureTimes == {500, 1000, 2000}
Samples == UNION {[1..n -> FailureTimes] : n \in 0..MaxSampleLen}
Methods == {"mle", "moments", "bogus"}
OptimizeResults == [success : BOOLEAN, x : {<<10, 1>>, <<250, 1500>>, <<1000, 6000>>}]
Operating == {-10, 0, 60, 75, 90}
References == {0, 75}

NoCall == [op |-> "none", args |-> None]

\* The dicts a caller of the toolkit builds: name, frequency count and the
\* three PFMEA ratings.  Two of them have the same frequency.
FailureModeDicts ==
  <<[mode |-> "Bearing Failure", frequency |-> 5,
     severity |-> 9, occurrence |-> 9, detection |-> 9],
    [mode |-> "Unbalance", frequency |-> 3,
     severity |-> 5, occurrence |-> 5, detection |-> 8],
    [mode |-> "Misalignment", frequency |-> 3,
     severity |-> 8, occurrence |-> 4, detection |-> 5],
    [mode |-> "Looseness", frequency |-> 1,
     severity |-> 5, occurrence |-> 5, detection |-> 4],
    [mode |-> "Cavitation", frequency |-> 0,
     severity |-> 4, occurrence |-> 4, detection |-> 6]>>

Ids == DOMAIN FailureModeDicts

InitialHeap == [id \in Ids |-> FailureModeDicts[id]]

\* Lists of distinct dicts, at most MaxModes long.
ModeLists ==
  {s \in UNION {[1..n -> Ids] : n \in 0..MaxModes} :
     \A i, j \in DOMAIN s : i # j => s[i] # s[j]}

NoThreads == <<>>

Init ==
  /\ model = None
  /\ call = NoCall
  /\ result = None
  /\ heap = InitialHeap
  /\ records = <<>>
  /\ threads = NoThreads

\* WeibullParameters(shape=..., scale=..., location=...)
Construct(shape, scale, location) ==
  /\ call = NoCall
  /\ model' = WeibullParameters(shape, scale, location)
  /\ call' = [op |-> "WeibullParameters",
              args |-> [shape |-> shape, scale |-> scale, location |-> location]]
  /\ result' = Value(model')
  /\ UNCHANGED <<heap, records, threads>>

\* model.reliability(time), model.failure_density(time), model.hazard_rate(time)
Evaluate(method, time) ==
  /\ call = NoCall
  /\ model # None
  /\ Valid(model) \/ time <= model.location
  /\ call' = [op |-> method, args |-> [self |-> model, time |-> time]]
  /\ result' = Value(CASE method = "reliability" -> Reliability(model, time)
                       [] method = "failure_density" -> FailureDensity(model, time)
                       [] method = "hazard_rate" -> HazardRate(model, time))
  /\ UNCHANGED <<model, heap, records, threads>>

\* model.b_life(percentile)
EvaluateBLife(percentile) ==
  /\ call = NoCall
  /\ model # None
  /\ Valid(model)
  /\ call' = [op |-> "b_life", args |-> [self |-> model, percentile |-> percentile]]
  /\ result' = Value(BLife(model, percentile))
  /\ UNCHANGED <<model, heap, records, threads>>

\* WeibullAnalysis.estimate_parameters(failure_times, method)
Estimate(failure_times, method, opt) ==
  /\ call = NoCall
  /\ call' = [op |-> "estimate_parameters",
              args |-> [failure_times |-> failure_times, method |-> method,
                        opt |-> opt]]
  /\ result' = EstimateParameters(failure_times, method, opt)
  /\ UNCHANGED <<model, heap, records, threads>>

\* calculate_remaining_useful_life(model, current_hours, model.reliability(current_hours));
\* a model whose location is not below any time of the search has no
\* arithmetic done on its shape and scale.
RemainingLife(current_hours) ==
  /\ call = NoCall
  /\ model # None
  /\ Valid(model) \/ current_hours * BracketFactor <= model.location
  /\ call' = [op |-> "calculate_remaining_useful_life",
              args |-> [self |-> model, current_hours |-> current_hours]]
  /\ result' = Returned(CalculateRemainingUsefulLife(model, current_hours))
  /\ UNCHANGED <<model, heap, records, threads>>

\* NSWC10StressFactors.<factor>(operating, reference)
StressFactor(factor, operating, reference, numpy) ==
  /\ call = NoCall
  /\ call' = [op |-> factor,
              args |-> [operating |-> operating, reference |-> reference,
                        numpy |-> numpy]]
  /\ result' = CASE factor = "temperature_factor" ->
                      TemperatureFactor(operating, reference, numpy)
                 [] factor = "vibration_factor" ->
                      VibrationFactor(operating, reference, numpy)
                 [] factor = "duty_cycle_factor" ->
                      DutyCycleFactor(operating, reference, numpy)
  /\ UNCHANGED <<model, heap, records, threads>>

\* WeibullAnalysis.goodness_of_fit(failure_times, model)
FitGoodness(failure_times) ==
  /\ call = NoCall
  /\ model # None
  /\ Valid(model)
  /\ call' = [op |-> "goodness_of_fit",
              args |-> [failure_times |-> failure_times, params |-> model]]
  /\ result' = GoodnessOfFit(failure_times, model)
  /\ UNCHANGED <<model, heap, records, threads>>

\* the caller takes the result; the library keeps nothing of the call
Return ==
  /\ call # NoCall
  /\ call' = NoCall
  /\ result' = None
  /\ UNCHANGED <<model, heap, records, threads>>

Next ==
  \/ \E shape \in ShapeValues, scale \in ScaleValues, location \in LocationValues :
       Construct(shape, scale, location)
  \/ \E method \in {"reliability", "failure_density", "hazard_rate"}, time \in Times :
       Evaluate(method, time)
  \/ \E percentile \in Percentiles : EvaluateBLife(percentile)
  \/ \E failure_times \in Samples, method \in Methods, opt \in OptimizeResults :
       Estimate(failure_times, method, opt)
  \/ \E current_hours \in Ages : RemainingLife(current_hours)
  \/ \E factor \in {"temperature_factor", "vibration_factor", "duty_cycle_factor"},
        operating \in Operating, reference \in References, numpy \in BOOLEAN :
       StressFactor(factor, operating, reference, numpy)
  \/ \E failure_times \in Samples : FitGoodness(failure_times)
  \/ Return

Spec == Init /\ [][Next]_vars

(***************************************************************************)
(* The failure-analysis toolkit, one whole call per action.  The caller    *)
(* builds a list of dicts and passes it to the calls it makes.             *)
(***************************************************************************)
Categories == EquipmentCategory \cup {"pump_centrifugal", "TURBINE_GAS"}
Problems == {"Pump P-101 seal leak"}
Statements == {"seal worn", "no lubrication schedule"}
WhyLists == UNION {[1..n -> Statements] : n \in 0..MaxWhys}
Vibrations == {0, 20, 45, 80}
EquipmentIds == {"P-101"}

\* the caller builds its dicts anew and puts them into a list
NewRecords(failure_modes) ==
  /\ call = NoCall
  /\ heap' = InitialHeap
  /\ records' = failure_modes
  /\ UNCHANGED <<model, call, result, threads>>

\* OREDAFailureRates.get_rates(category)
LookUpRates(category) ==
  /\ call = NoCall
  /\ call' = [op |-> "get_rates", args |-> [category |-> category]]
  /\ result' = GetRates(category)
  /\ UNCHANGED <<model, heap, records, threads>>

\* RCFAAnalysis.five_whys_analysis(problem_statement, whys)
FiveWhys(problem_statement, whys) ==
  /\ call = NoCall
  /\ call' = [op |-> "five_whys_analysis",
              args |-> [problem_statement |-> problem_statement, whys |-> whys]]
  /\ result' = FiveWhysAnalysis(problem_statement, whys)
  /\ UNCHANGED <<model, heap, records, threads>>

\* RCFAAnalysis.pareto_analysis(records)
Pareto ==
  /\ call = NoCall
  /\ LET done == ParetoAnalysis(heap, records)
     IN  /\ heap' = done.heap
         /\ result' = done.result
  /\ call' = [op |-> "pareto_analysis",
              args |-> [failure_modes |-> records, dicts |-> Deref(heap, records)]]
  /\ UNCHANGED <<model, records, threads>>

\* PFMEAAnalysis.pfmea_worksheet(equipment_id, records)
Pfmea(equipment_id) ==
  /\ call = NoCall
  /\ LET done == PfmeaWorksheet(heap, equipment_id, records)
     IN  /\ heap' = done.heap
         /\ result' = done.result
  /\ call' = [op |-> "pfmea_worksheet",
              args |-> [equipment_id |-> equipment_id, failure_modes |-> records,
                        dicts |-> Deref(heap, records)]]
  /\ UNCHANGED <<model, records, threads>>

\* POST /api/pfmea/worksheet with the records as the request's failure_modes
CreateWorksheet(equipment_id) ==
  /\ call = NoCall
  /\ LET done == CreatePfmeaWorksheet(heap, equipment_id, records)
     IN  /\ heap' = done.heap
         /\ result' = done.result
  /\ call' = [op |-> "create_pfmea_worksheet",
              args |-> [equipment_id |-> equipment_id, failure_modes |-> records,
                        dicts |-> Deref(heap, records)]]
  /\ UNCHANGED <<model, records, threads>>

\* POST /api/pareto with the records as the request's failure_modes
AnalyzeParetoRequest ==
  /\ call = NoCall
  /\ call' = [op |-> "analyze_pareto",
              args |-> [failure_modes |-> records, dicts |-> Deref(heap, records)]]
  /\ result' = AnalyzePareto(heap, records)
  /\ UNCHANGED <<model, heap, records, threads>>

\* generate_failure_modes(avg_vibration, operational_data)
GenerateModes(avg_vibration) ==
  /\ call = NoCall
  /\ call' = [op |-> "generate_failure_modes",
              args |-> [avg_vibration |-> avg_vibration]]
  /\ result' = GenerateFailureModes(avg_vibration)
  /\ UNCHANGED <<model, heap, records, threads>>

AnalysisNext ==
  \/ \E failure_modes \in ModeLists : NewRecords(failure_modes)
  \/ \E category \in Categories : LookUpRates(category)
  \/ \E problem_statement \in Problems, whys \in WhyLists :
       FiveWhys(problem_statement, whys)
  \/ Pareto
  \/ \E equipment_id \in EquipmentIds : Pfmea(equipment_id)
  \/ \E equipment_id \in EquipmentIds : CreateWorksheet(equipment_id)
  \/ AnalyzeParetoRequest
  \/ \E avg_vibration \in Vibrations : GenerateModes(avg_vibration)
  \/ Return

AnalysisSpec == Init /\ [][AnalysisNext]_vars

(***************************************************************************)
(* Callers that run pareto_analysis at the same time, without locking, on  *)
(* lists that may hold the same dicts.  A step is the sort with the total  *)
(* (lines 279-282), one iteration of the for loop (284-288) or the         *)
(* selection of the vital few with the return (291-299).  seen is what     *)
(* the caller reads in the dicts of the list returned, at the return.      *)
(***************************************************************************)
Tids == {1, 2}

\* The lists the concurrent callers pass: over the first three dicts, one
\* dict shorter than MaxModes at most.
SharedLists == {s \in ModeLists : Range(s) \subseteq 1..3 /\ Len(s) < MaxModes}

Started(failure_modes) ==
  [failure_modes |-> failure_modes, pc |-> "sort", sorted_modes |-> <<>>,
   total_frequency |-> 0, cumulative_percentage |-> 0, i |-> 1,
   result |-> None, seen |-> <<>>]

ThreadsInit ==
  /\ model = None
  /\ call = NoCall
  /\ result = None
  /\ heap = InitialHeap
  /\ records = <<>>
  /\ threads \in [Tids -> {Started(s) : s \in SharedLists}]

ParetoSort(t) ==
  /\ threads[t].pc = "sort"
  /\ LET sorted_modes == SortedDescending(threads[t].failure_modes, Frequencies(heap))
     IN  threads' = [threads EXCEPT
                       ![t].sorted_modes = sorted_modes,
                       ![t].total_frequency = TotalFrequency(heap, sorted_modes),
                       ![t].cumulative_percentage = 0,
                       ![t].i = 1,
                       ![t].pc = "loop"]
  /\ UNCHANGED <<model, call, result, heap, records>>

ParetoIterate(t) ==
  /\ threads[t].pc = "loop"
  /\ threads[t].i <= Len(threads[t].sorted_modes)
  /\ IF threads[t].total_frequency = 0
     THEN /\ threads' = [threads EXCEPT ![t].result = Raise("ZeroDivisionError"),
                                        ![t].pc = "done"]
          /\ UNCHANGED heap
     ELSE LET st == ParetoAnnotate(heap, threads[t].sorted_modes[threads[t].i],
                                   threads[t].total_frequency,
                                   threads[t].cumulative_percentage)
          IN  /\ heap' = st.heap
              /\ threads' = [threads EXCEPT
                               ![t].cumulative_percentage = st.cumulative_percentage,
                               ![t].i = @ + 1]
  /\ UNCHANGED <<model, call, result, records>>

ParetoFinish(t) ==
  /\ threads[t].pc = "loop"
  /\ threads[t].i > Len(threads[t].sorted_modes)
  /\ threads' = [threads EXCEPT
                   ![t].result = Value(ParetoResult(heap, threads[t].sorted_modes)),
                   ![t].seen = Deref(heap, threads[t].sorted_modes),
                   ![t].pc = "done"]
  /\ UNCHANGED <<model, call, result, heap, records>>

ThreadsNext ==
  \E t \in Tids : ParetoSort(t) \/ ParetoIterate(t) \/ ParetoFinish(t)

ThreadsSpec == ThreadsInit /\ [][ThreadsNext]_vars

(***************************************************************************)
(* Properties.                                                             *)
(***************************************************************************)
Estimated == call.op = "estimate_parameters"

EstimatorMethods == {"mle", "moments"}

\* C1: estimate on a sample of fewer than 3 failure times, with method MLE
\* or MOMENTS, fails with InsufficientData and returns no model.
C1_ShortSampleRaisesInsufficientData ==
  (Estimated /\ call.args.method \in EstimatorMethods
             /\ Len(call.args.failure_times) < 3)
    => result.err = "InsufficientData"

\* C2: estimate with a method other than MLE and MOMENTS fails with
\* InvalidArgument whatever the sample, and no estimator was entered.
C2_UnknownMethodRaises ==
  (Estimated /\ call.args.method \notin EstimatorMethods)
    => /\ result.err = InvalidArgument
       /\ result.info.ran = <<>>

C2_Witness ==
  /\ Estimated
  /\ call.args.method = "bogus"
  /\ Len(call.args.failure_times) >= 3
  /\ result.err = InvalidArgument

\* C3: estimate(sample, MLE) never fails; when the optimizer reports
\* non-convergence it returns the model estimate(sample, MOMENTS) returns
\* for the same sample, and when the optimizer reports success the moments
\* estimator is not entered and the optimizer's (shape, scale) is returned.
C3_FallbackIsMoments ==
  (Estimated /\ call.args.method = "mle")
    => LET opt == call.args.opt
           moments == EstimateParameters(call.args.failure_times, "moments", opt)
       IN  /\ result.err = "none"
           /\ ~opt.success => /\ result.value = moments.value
                              /\ result.info.ran = <<"mle", "moments">>
           /\ opt.success => /\ result.info.ran = <<"mle">>
                             /\ result.value.shape = opt.x[1]
                             /\ result.value.scale = opt.x[2]

C3_Witness ==
  /\ Estimated
  /\ call.args.method = "mle"
  /\ ~call.args.opt.success
  /\ Len(call.args.failure_times) >= 3
  /\ result.info.search.exit = "converged"
  /\ result.value.shape # call.args.opt.x[1]

\* C4: every model estimate returns, on the MLE path, the moments path and
\* the fallback path, has location 0.
C4_LocationIsZero ==
  (Estimated /\ result.err = "none") => result.value.location = 0

C4_Witness ==
  /\ Estimated
  /\ result.err = "none"
  /\ result.info.ran = <<"mle", "moments">>
  /\ Len(call.args.failure_times) >= 3
  /\ result.value.location = 0

\* C5: the moment-matching search enters its loop at most 100 times and
\* the remaining-life binary search at most 50 times, for every input.
C5_LoopsWithinCaps ==
  /\ (Estimated /\ result.err = "none")
       => /\ result.info.search.iterations <= 100
          /\ Len(result.info.search.shapes) = result.info.search.iterations
  /\ call.op = "calculate_remaining_useful_life"
       => /\ result.info.iterations <= 50
          /\ Len(result.info.steps) = result.info.iterations

C5_Witness ==
  /\ Estimated
  /\ result.err = "none"
  /\ result.info.search.exit = "exhausted"
  /\ result.info.search.iterations = 100

RulCalled == call.op = "calculate_remaining_useful_life"

Evaluated == call.op \in {"reliability", "failure_density", "hazard_rate"}

StressCalled ==
  call.op \in {"temperature_factor", "vibration_factor", "duty_cycle_factor"}

\* The reliability of the model of the call at the time the solver returns.
ReliabilityAtReturn ==
  Reliability(call.args.self, call.args.current_hours + result.value)

\* C6: for every model and every current_age at which the
\* reliability is above the target 0.1, the remaining life r returned has
\* |reliability(current_age + r) - 0.1| < 0.001.
C6_ReturnsTimeOfTarget ==
  (RulCalled /\ Reliability(call.args.self, call.args.current_hours) > TargetReliability)
    => Abs(ReliabilityAtReturn - TargetReliability) < RulTolerance

C8_ConstructorRejectsNonPositive ==
  /\ (call.op = "WeibullParameters" /\ (call.args.shape <= 0 \/ call.args.scale <= 0))
       => result.err = "InvalidParameter"
  /\ model # None => Valid(model)

\* C9: reliability, failure_density and hazard_rate at a time t < 0, and
\* b_life at a percentile p <= 0 or p >= 100, fail with InvalidArgument.
C9_OutOfDomainRaises ==
  /\ (Evaluated /\ call.args.time < 0) => result.err = InvalidArgument
  /\ (call.op = "b_life" /\ (call.args.percentile <= 0 \/ call.args.percentile >= 100))
       => result.err = InvalidArgument

\* C10: a stress factor called with a reference value of 0 fails with
\* InvalidArgument for every operating value and returns no infinite or
\* NaN multiplier.
C10_ZeroReferenceRaises ==
  (StressCalled /\ call.args.reference = 0) => result.err = InvalidArgument

(***************************************************************************)
(* Properties of the failure-analysis toolkit (AnalysisSpec).              *)
(***************************************************************************)
Position(s, x) == CHOOSE i \in DOMAIN s : s[i] = x

ParetoReturned == call.op = "pareto_analysis" /\ result.err = "none"

\* The list as ranked by the call, and the two annotations of its items.
Ranked == result.value.failure_modes

FrequencyAt(i) == heap[Ranked[i]].frequency

CumulativeAt(i) == heap[Ranked[i]].cumulative_percentage

\* C11: get_rates returns for each of the six categories its fixed record
\* of the table, on every call, and for any other category it fails with
\* UnknownCategory and returns no record.
C11_RatesLookup ==
  call.op = "get_rates" =>
    IF call.args.category \in
         {"PUMP_CENTRIFUGAL", "PUMP_POSITIVE_DISPLACEMENT", "MOTOR_INDUCTION",
          "COMPRESSOR_CENTRIFUGAL", "VALVE_BALL", "VALVE_BUTTERFLY"}
    THEN result.err = "none" /\ result.value = RatesDb[call.args.category]
    ELSE result.err = UnknownCategory /\ result.value = None

C11_Witness ==
  /\ call.op = "get_rates"
  /\ call.args.category = "TURBINE_GAS"
  /\ result.err = UnknownCategory

\* C12: the failure_modes list returned by the Pareto ranking is a
\* permutation of the input in non-increasing order of frequency, and items
\* of equal frequency are in the order they have in the input.
C12_RankingStable ==
  ParetoReturned =>
    /\ Len(Ranked) = Len(call.args.failure_modes)
    /\ Range(Ranked) = Range(call.args.failure_modes)
    /\ \A i, j \in DOMAIN Ranked :
         i < j => /\ FrequencyAt(i) >= FrequencyAt(j)
                  /\ FrequencyAt(i) = FrequencyAt(j) =>
                       Position(call.args.failure_modes, Ranked[i])
                         < Position(call.args.failure_modes, Ranked[j])

C12_Witness ==
  /\ ParetoReturned
  /\ Len(Ranked) = 3
  /\ Ranked # call.args.failure_modes
  /\ \E i \in 1..2 : /\ FrequencyAt(i) = FrequencyAt(i + 1)
                     /\ Ranked[i] > Ranked[i + 1]

\* C13: for every non-empty input of the Pareto ranking the cumulative
\* percentages along the ranked list are non-decreasing and the last one
\* equals 100.
C13_CumulativeReaches100 ==
  (call.op = "pareto_analysis" /\ call.args.failure_modes # <<>>) =>
    /\ result.err = "none"
    /\ \A i, j \in DOMAIN Ranked : i < j => CumulativeAt(i) <= CumulativeAt(j)
    /\ CumulativeAt(Len(Ranked)) = 100 * PctUnit

\* C13, amended: for every non-empty input whose total frequency is
\* positive the call returns, the cumulative percentages along the ranked
\* list are non-decreasing and the last one is within 1e-6 of 100.
C13_CumulativeReaches100Nearly ==
  (/\ call.op = "pareto_analysis"
   /\ call.args.failure_modes # <<>>
   /\ SeqSum([i \in DOMAIN call.args.dicts |-> call.args.dicts[i].frequency]) > 0) =>
    /\ result.err = "none"
    /\ \A i, j \in DOMAIN Ranked : i < j => CumulativeAt(i) <= CumulativeAt(j)
    /\ Abs(CumulativeAt(Len(Ranked)) - 100 * PctUnit) <= PctUnit \div 10^6

C13_Witness ==
  /\ ParetoReturned
  /\ Len(Ranked) = 3
  /\ CumulativeAt(1) < CumulativeAt(2)
  /\ CumulativeAt(3) # 100 * PctUnit
  /\ Abs(CumulativeAt(3) - 100 * PctUnit) <= PctUnit \div 10^6

\* C14: the vital few is the longest prefix of the ranked list whose
\* cumulative percentages are <= 80, vital_few_percentage is the cumulative
\* percentage of its last item, and 0 when the vital few is empty.
C14_VitalFewIsPrefix ==
  ParetoReturned =>
    LET vital_few == result.value.vital_few
        k == Len(vital_few)
    IN  /\ k <= Len(Ranked)
        /\ vital_few = SubSeq(Ranked, 1, k)
        /\ \A i \in 1..k : CumulativeAt(i) <= 80 * PctUnit
        /\ k < Len(Ranked) => CumulativeAt(k + 1) > 80 * PctUnit
        /\ result.value.vital_few_count = k
        /\ result.value.vital_few_percentage = IF k = 0 THEN 0 ELSE CumulativeAt(k)

C14_Witness ==
  /\ ParetoReturned
  /\ Len(result.value.vital_few) = 2
  /\ Len(Ranked) = 3
  /\ result.value.vital_few_percentage = CumulativeAt(2)
  /\ CumulativeAt(3) > 80 * PctUnit

\* C15: every failure-mode record produced by the PFMEA code and its
\* callers has severity, occurrence and detection in 1..10 and an RPN equal
\* to their product, in 1..1000.
C15_RpnInRange ==
  /\ call.op = "generate_failure_modes" =>
       \A i \in DOMAIN result.value :
         /\ result.value[i].severity \in 1..10
         /\ result.value[i].detectability \in 1..10
         /\ result.value[i].rpn \in 1..1000
  /\ call.op \in {"pfmea_worksheet", "create_pfmea_worksheet"} =>
       \A i \in DOMAIN result.value.failure_modes :
         LET d == heap[result.value.failure_modes[i]]
         IN  /\ d.severity \in 1..10 /\ d.occurrence \in 1..10 /\ d.detection \in 1..10
             /\ d.rpn = d.severity * d.occurrence * d.detection
             /\ d.rpn \in 1..1000

\* C16: pfmea_worksheet returns the failure modes in non-increasing order
\* of RPN; every mode is in exactly one of the buckets high (RPN >= 200),
\* medium (100 <= RPN < 200) and low (RPN < 100), and each bucket is in the
\* order of the sorted list.
C16_BucketsPartition ==
  call.op = "pfmea_worksheet" =>
    LET high == result.value.high_risk_modes
        medium == result.value.medium_risk_modes
        low == result.value.low_risk_modes
        InOrder(b) == \A i, j \in DOMAIN b :
                        i < j => Position(Ranked, b[i]) < Position(Ranked, b[j])
    IN  /\ Range(Ranked) = Range(call.args.failure_modes)
        /\ Len(Ranked) = Len(call.args.failure_modes)
        /\ \A i, j \in DOMAIN Ranked :
             i < j => heap[Ranked[i]].rpn >= heap[Ranked[j]].rpn
        /\ Range(high) = {id \in Range(Ranked) : heap[id].rpn >= 200}
        /\ Range(medium) = {id \in Range(Ranked) : heap[id].rpn >= 100 /\ heap[id].rpn < 200}
        /\ Range(low) = {id \in Range(Ranked) : heap[id].rpn < 100}
        /\ Len(high) + Len(medium) + Len(low) = Len(Ranked)
        /\ InOrder(high) /\ InOrder(medium) /\ InOrder(low)

C16_Witness ==
  /\ call.op = "pfmea_worksheet"
  /\ Len(Ranked) = 3
  /\ Ranked # call.args.failure_modes
  /\ \E i \in DOMAIN result.value.high_risk_modes :
       heap[result.value.high_risk_modes[i]].rpn = 200
  /\ \E i \in DOMAIN result.value.medium_risk_modes :
       heap[result.value.medium_risk_modes[i]].rpn = 100

\* C17: five_whys_analysis returns the last of the whys as root cause, the
\* sentinel "Not determined" for no whys, and the problem statement and the
\* whys as they were given.
C17_RootCauseIsLastWhy ==
  call.op = "five_whys_analysis" =>
    /\ result.err = "none"
    /\ result.value.root_cause =
         IF Len(call.args.whys) = 0 THEN "Not determined"
         ELSE call.args.whys[Len(call.args.whys)]
    /\ result.value.problem_statement = call.args.problem_statement
    /\ result.value.whys = call.args.whys

C17_Witness ==
  /\ call.op = "five_whys_analysis"
  /\ Len(call.args.whys) >= 2
  /\ call.args.whys[1] # call.args.whys[Len(call.args.whys)]
  /\ result.value.root_cause = call.args.whys[Len(call.args.whys)]

\* C18: after pareto_analysis or pfmea_worksheet has returned, the caller's
\* list and each of its dicts have the fields and values they had before
\* the call.
C18_ArgumentsUntouched ==
  call.op \in {"pareto_analysis", "pfmea_worksheet"} =>
    /\ records = call.args.failure_modes
    /\ Deref(heap, call.args.failure_modes) = call.args.dicts

\* C20: the Kolmogorov-Smirnov statistic returned by goodness_of_fit is the
\* one of the sorted sample, the maximum over the ranks k of
\* |CDF(k-th smallest time) - k/n|, whatever the order of the input.
C20_KsOfSortedSample ==
  (call.op = "goodness_of_fit" /\ result.err = "none") =>
    result.value.kolmogorov_smirnov =
      KsStatistic(SortedAscending(call.args.failure_times), call.args.params)

\* What a pareto_analysis call on the list returns, and what its caller
\* reads in the dicts returned, when no other call runs.
Alone(failure_modes) ==
  LET done == ParetoAnalysis(InitialHeap, failure_modes)
  IN  [result |-> done.result,
       seen |-> IF done.result.err = "none"
                THEN Deref(done.heap, done.result.value.failure_modes) ELSE <<>>]

\* C19: under every interleaving of concurrent pareto_analysis calls each
\* caller gets the result its call gives when it runs alone: ranked list,
\* percentages, cumulative percentages and vital few of its own list.
C19_ConcurrentCallsIndependent ==
  \A t \in DOMAIN threads :
    threads[t].pc = "done" =>
      /\ threads[t].result = Alone(threads[t].failure_modes).result
      /\ threads[t].seen = Alone(threads[t].failure_modes).seen

\* The <<low, mid, high>> of the iterations of the call, the bounds each
\* iteration left, and whether it left the loop.
RulSteps == result.info.steps

BoundsAfter(k) ==
  IF k < Len(RulSteps) THEN <<RulSteps[k + 1][1], RulSteps[k + 1][3]>>
  ELSE <<result.info.low, result.info.high>>

Converged(k) == k = Len(RulSteps) /\ result.info.exit = "converged"

ReliabilityOfCall(time) == Reliability(call.args.self, time)

\* C24: for every current_age >= 0, every step of the search has
\* current_age <= low <= mid <= high <= 10 x current_age, and the value
\* returned, on either exit, lies in [0, 9 x current_age].
C24_BracketOrdered ==
  (RulCalled /\ call.args.current_hours >= 0)
    => /\ \A k \in DOMAIN RulSteps :
            /\ call.args.current_hours <= RulSteps[k][1]
            /\ RulSteps[k][1] <= RulSteps[k][2]
            /\ RulSteps[k][2] <= RulSteps[k][3]
            /\ RulSteps[k][3] <= 10 * call.args.current_hours
       /\ result.err = "none"
       /\ 0 <= result.value
       /\ result.value <= 9 * call.args.current_hours

C24_Witness ==
  /\ RulCalled
  /\ call.args.current_hours > 0
  /\ result.info.exit = "converged"
  /\ Len(RulSteps) > 2
  /\ RulSteps[Len(RulSteps)][1] > call.args.current_hours
  /\ RulSteps[Len(RulSteps)][3] < 10 * call.args.current_hours
  /\ result.value > 0

\* C25: a step that does not converge moves exactly one bound to mid: high
\* when the reliability at mid is below the target, low otherwise; so low
\* is current_age or a time with reliability above the target, and high is
\* 10 x current_age or a time with reliability below the target.
C25_OneBoundMoves ==
  RulCalled
    => /\ \A k \in DOMAIN RulSteps :
            ~Converged(k)
              => BoundsAfter(k) =
                   IF ReliabilityOfCall(RulSteps[k][2]) < TargetReliability
                   THEN <<RulSteps[k][1], RulSteps[k][2]>>
                   ELSE <<RulSteps[k][2], RulSteps[k][3]>>
       /\ \A k \in DOMAIN RulSteps :
            /\ \/ BoundsAfter(k)[1] = call.args.current_hours
               \/ ReliabilityOfCall(BoundsAfter(k)[1]) > TargetReliability
            /\ \/ BoundsAfter(k)[2] = 10 * call.args.current_hours
               \/ ReliabilityOfCall(BoundsAfter(k)[2]) < TargetReliability

C25_Witness ==
  /\ RulCalled
  /\ \E j, k \in DOMAIN RulSteps :
       /\ ~Converged(j) /\ ~Converged(k)
       /\ BoundsAfter(j)[1] > RulSteps[j][1]
       /\ BoundsAfter(k)[2] < RulSteps[k][3]

\* The times examined whose reliability was above the target, and
\* current_age.
AboveTarget ==
  {call.args.current_hours}
    \cup {RulSteps[k][2] : k \in {j \in DOMAIN RulSteps :
                                    ReliabilityOfCall(RulSteps[j][2]) > TargetReliability}}

\* C26: when all 50 iterations pass without a midpoint within 0.001 of the
\* target, no error is raised and max(0, low - current_age) is returned,
\* low being the largest examined time with reliability above the target,
\* or current_age.
C26_ExhaustionReturnsLow ==
  (RulCalled /\ result.info.exit = "exhausted")
    => /\ result.err = "none"
       /\ result.info.iterations = RulMaxIter
       /\ result.value = Max(0, result.info.low - call.args.current_hours)
       /\ result.info.low \in AboveTarget
       /\ \A t \in AboveTarget : t <= result.info.low

C26_Witness ==
  /\ RulCalled
  /\ result.info.exit = "exhausted"
  /\ result.info.low > call.args.current_hours
  /\ result.info.low < result.info.high
  /\ result.value > 0

HazardFormula ==
  RateTimes(ShapeOverScale(call.args.self),
            Power(TimeRatio(call.args.time - call.args.self.location,
                            call.args.self.scale),
                  call.args.self.shape - 100, 100))

\* C27: for every t >= location, t = location included, hazard_rate(t) is
\* (shape/scale) x ((t-location)/scale)^(shape-1); for shape = 1 it is
\* 1/scale at every such t.
C27_HazardIsFormula ==
  (/\ call.op = "hazard_rate"
   /\ Valid(call.args.self)
   /\ call.args.time >= call.args.self.location)
    => /\ result.err = "none"
       /\ result.value = HazardFormula
       /\ call.args.self.shape = 100
            => result.value = RateUnit \div call.args.self.scale

\* The total of the frequencies of the list passed to the call.
TotalOfCall ==
  SeqSum([i \in DOMAIN call.args.dicts |-> call.args.dicts[i].frequency])

\* C29: pareto_analysis of a non-empty list whose frequencies sum to 0 fails
\* with ZeroDivisionError and returns nothing; of the empty list it returns
\* an empty ranking; a list with a positive total is ranked.
C29_ZeroTotalRaisesUnlessEmpty ==
  call.op = "pareto_analysis"
    => IF call.args.failure_modes = <<>>
       THEN /\ result.err = "none"
            /\ result.value.failure_modes = <<>>
            /\ result.value.vital_few = <<>>
            /\ result.value.vital_few_count = 0
            /\ result.value.vital_few_percentage = 0
       ELSE IF TotalOfCall = 0
       THEN /\ result.err = "ZeroDivisionError"
            /\ result.value = None
       ELSE result.err = "none"

C29_Witness ==
  /\ call.op = "pareto_analysis"
  /\ call.args.failure_modes # <<>>
  /\ TotalOfCall = 0
  /\ result.err = "ZeroDivisionError"
  /\ heap = InitialHeap

\* A call of the estimator that ran the moments search, the sample's
\* coefficient of variation, what the search did and the shape it left.
MomentsRan ==
  Estimated /\ result.err = "none" /\ result.info.search.exit # "none"

SampleCV == CoefficientOfVariation(call.args.failure_times)

Search == result.info.search

\* The step the code takes from a shape: up when the theoretical CV is
\* above the sample CV, down otherwise.
StepFrom(shape, cv) ==
  IF FGt(TheoreticalCV(shape), cv) THEN ShapeStep ELSE -ShapeStep

\* C22: for every sample whose CV is the theoretical CV of a shape between
\* 0.1 and 2.0 (the theoretical CV is continuous and decreasing in the
\* shape: every CV between those of 2.0 and 0.1), the search stops at a
\* shape whose theoretical CV is within 0.001 of the sample CV.
C22_MomentsSearchConverges ==
  (/\ MomentsRan
   /\ FLe(TheoreticalCV(200), SampleCV)
   /\ FLe(SampleCV, TheoreticalCV(10)))
    => /\ Search.exit = "converged"
       /\ Abs(TheoreticalCV(Search.shape) - SampleCV) < MomentsTolerance

\* What C23 says of the steps: the search starts at 1.0, every iteration
\* that does not stop moves the shape by one step of 0.01 in the direction
\* of StepFrom, a shape of 0.1 or less ends the search with exactly 0.1, and
\* at most 100 iterations are made.
MomentsStepsAsClaimed ==
  LET cv == SampleCV
      last == Search.shapes[Search.iterations]
  IN  /\ Search.iterations <= MomentsMaxIter
      /\ Search.iterations > 0 => Search.shapes[1] = InitialShape
      /\ \A k \in DOMAIN Search.shapes :
           /\ Search.shapes[k] > MinShape
           /\ k < Len(Search.shapes)
                => Search.shapes[k + 1] = Search.shapes[k] + StepFrom(Search.shapes[k], cv)
      /\ Search.exit = "converged" => Search.shape = last
      /\ Search.exit = "exhausted" => Search.shape = last + StepFrom(last, cv)
      /\ Search.exit = "floor"
           => /\ last + StepFrom(last, cv) <= MinShape
              /\ Search.shape = MinShape
              /\ Search.excess = MinShapeExcess
      /\ result.value.shape = Search.shape

\* The float returned is at least the float 0.1.
AtLeastMinShape ==
  \/ Search.shape > MinShape
  \/ Search.shape = MinShape /\ Search.excess >= MinShapeExcess

\* C23: the shape returned by the Moments path lies in [0.1, 2.0]: the
\* search starts at 1.0, moves by 0.01 per iteration (up when the
\* theoretical CV is above the sample CV, down otherwise), returns exactly
\* 0.1 as soon as the shape is 0.1 or less and makes at most 100 steps, so
\* no sample yields a shape above 2.0.
C23_MomentsShapeInRange ==
  MomentsRan
    => /\ MomentsStepsAsClaimed
       /\ AtLeastMinShape
       /\ \/ Search.shape < 2 * InitialShape
          \/ Search.shape = 2 * InitialShape /\ Search.excess <= 0

\* C23, amended: as above, the largest shape returned being the float that
\* one hundred additions of 0.01 to 1.0 make, 2.000000000000001, which is
\* 4 * 2^-52 above 2.0.
C23_MomentsShapeInRangeAsFloat ==
  MomentsRan
    => /\ MomentsStepsAsClaimed
       /\ AtLeastMinShape
       /\ \/ Search.shape < 2 * InitialShape
          \/ Search.shape = 2 * InitialShape /\ Search.excess <= 4 * ShapeUlp

C23_Witness ==
  /\ MomentsRan
  /\ Len(call.args.failure_times) >= 3
  /\ Search.iterations = MomentsMaxIter
  /\ Search.shape = 2 * InitialShape
  /\ Search.excess = 4 * ShapeUlp

FitCalled == call.op = "goodness_of_fit"

\* C21: for every sample of 3 or more times and every model with positive
\* shape and scale, goodness_of_fit raises nothing and returns the three
\* statistics, and the Anderson-Darling statistic is finite, also when a
\* sample point has reliability exactly 1 or exactly 0.
C21_AndersonDarlingFinite ==
  (FitCalled /\ Len(call.args.failure_times) >= 3 /\ Valid(call.args.params))
    => /\ result.err = "none"
       /\ DOMAIN result.value = {"kolmogorov_smirnov", "anderson_darling", "r_squared"}
       /\ IsFinite(result.value.anderson_darling)

\* What the engine's pareto_analysis does with the dicts of the request.
EngineOfCall == ParetoAnalysis(heap, call.args.failure_modes)

\* C30: for every list with a positive total frequency the endpoint
\* /api/pareto and the engine's pareto_analysis give the same ranked order
\* and the same cumulative percentage at each position, and top_20_percent
\* lists the modes of the engine's vital few, in the same order.
C30_EndpointAgreesWithEngine ==
  (call.op = "analyze_pareto" /\ TotalOfCall > 0)
    => LET engine == EngineOfCall.result.value
           annotated == EngineOfCall.heap
       IN  /\ result.err = "none"
           /\ result.value.failure_modes = engine.failure_modes
           /\ \A i \in DOMAIN engine.failure_modes :
                result.value.cumulative_percentages[i]
                  = annotated[engine.failure_modes[i]].cumulative_percentage
           /\ result.value.top_20_percent
                = [i \in DOMAIN engine.vital_few |-> annotated[engine.vital_few[i]].mode]

====
